---------------------------- MODULE Spec2Model ----------------------------
(***************************************************************************)
(* Model of src/src/index.ts: the create-image and edit-image tools of the *)
(* openai-gpt-image-mcp server.                                            *)
(*                                                                         *)
(* Strings are sequences of one-character strings, so that the regular     *)
(* expressions, path.parse and path.join of the source are computed        *)
(* character by character.  A character outside printable ASCII is written *)
(* as a symbolic token ("NUL", "ESC", "DEL", "NBSP").  An optional string  *)
(* argument is <<>> when absent and <<s>> when supplied with value s; an   *)
(* optional enum argument is "undefined" when absent.  The path functions  *)
(* are those of a POSIX host (path.posix).                                 *)
(***************************************************************************)
EXTENDS Integers, Sequences, FiniteSets, TLC

\* ------------------------------------------------------------------------
\* Bounds of the model
\* ------------------------------------------------------------------------

\* Largest number of payloads the upstream call returns.
MaxImages == 3

\* Longest short filename enumerated for sanitizeFilename.
MaxNameLen == 2

\* ------------------------------------------------------------------------
\* Characters and strings
\* ------------------------------------------------------------------------

Undefined == <<>>

Some(s) == <<s>>

\* JavaScript truthiness of an optional string: absent and "" are falsy.
Truthy(o) == o # Undefined /\ o[1] # <<>>

UpperSeq ==
    <<"A","B","C","D","E","F","G","H","I","J","K","L","M",
      "N","O","P","Q","R","S","T","U","V","W","X","Y","Z">>

LowerSeq ==
    <<"a","b","c","d","e","f","g","h","i","j","k","l","m",
      "n","o","p","q","r","s","t","u","v","w","x","y","z">>

DigitSeq == <<"0","1","2","3","4","5","6","7","8","9">>

Range(s) == {s[i] : i \in 1..Len(s)}

Letters == Range(UpperSeq) \cup Range(LowerSeq)

\* The characters \s matches.
WhitespaceChars == {" ", "\t", "\n", "\r", "NBSP"}

\* The characters \x00-\x1f that occur in the inputs.
C0Chars == {"NUL", "\t", "\n", "\r", "ESC"}

\* String.prototype.toLowerCase on one character.
toLowerChar(c) ==
    IF c \in Range(UpperSeq)
    THEN LowerSeq[CHOOSE i \in 1..26 : UpperSeq[i] = c]
    ELSE c

toLowerCase(s) == [i \in 1..Len(s) |-> toLowerChar(s[i])]

\* s.replace(/[set]/g, by)
ReplaceChars(s, set, by) == [i \in 1..Len(s) |-> IF s[i] \in set THEN by ELSE s[i]]

\* s.replace(/[set]+/g, "")
RemoveChars(s, set) == SelectSeq(s, LAMBDA c : c \notin set)

startsWith(s, p) == Len(s) >= Len(p) /\ SubSeq(s, 1, Len(p)) = p

\* The decimal digits of n, as `${n}` renders it.
RECURSIVE Decimal(_)
Decimal(n) ==
    IF n < 10 THEN <<DigitSeq[n + 1]>>
    ELSE Decimal(n \div 10) \o <<DigitSeq[(n % 10) + 1]>>

Min(S) == CHOOSE x \in S : \A y \in S : x <= y

Max(S) == CHOOSE x \in S : \A y \in S : x >= y

\* The first index >= i whose character is not in set (Len(s)+1 when none).
SkipForward(s, set, i) ==
    LET stop == {j \in i..Len(s) : s[j] \notin set}
    IN  IF stop = {} THEN Max({Len(s) + 1, i}) ELSE Min(stop)

\* The last index <= i whose character is not in set (0 when none).
SkipBackward(s, set, i) ==
    LET stop == {j \in 1..i : s[j] \notin set}
    IN  IF stop = {} THEN Min({0, i}) ELSE Max(stop)

\* The last index <= i whose character is in set (0 when none).
LastIndexIn(s, set, i) ==
    LET hit == {j \in 1..i : s[j] \in set}
    IN  IF hit = {} THEN Min({0, i}) ELSE Max(hit)

\* ------------------------------------------------------------------------
\* sanitizeFilename (index.ts 42-63)
\* ------------------------------------------------------------------------

FILENAME_MAX == 200

DefaultName == <<"i","m","a","g","e">>

\* filename.replace(/[\/\\]/g, '-'), with the replacement left out
ReplaceSeparatorsMutant(s) == s

\* filename.replace(/[\/\\]/g, '-')
ReplaceSeparators(s) == ReplaceChars(s, {"/", "\\"}, "-")

\* sanitized.replace(/[<>:"|?*\x00-\x1f]/g, '-')
ReplaceProblematic(s) ==
    ReplaceChars(s, {"<", ">", ":", "\"", "|", "?", "*"} \cup C0Chars, "-")

\* sanitized.replace(/^[\s.]+|[\s.]+$/g, '')
TrimDotsAndSpaces(s) ==
    LET trimSet == WhitespaceChars \cup {"."}
        first == SkipForward(s, trimSet, 1)
        last == SkipBackward(s, trimSet, Len(s))
    IN  IF first > last THEN <<>> ELSE SubSeq(s, first, last)

\* if (sanitized.length > 200) sanitized = sanitized.substring(0, 200)
Truncate(s) == IF Len(s) > FILENAME_MAX THEN SubSeq(s, 1, FILENAME_MAX) ELSE s

sanitizeFilename(filename) ==
    LET sanitized == Truncate(TrimDotsAndSpaces(ReplaceProblematic(ReplaceSeparators(filename))))
    IN  IF sanitized = <<>> THEN DefaultName ELSE sanitized

\* ------------------------------------------------------------------------
\* parseSize (index.ts 66-94)
\* ------------------------------------------------------------------------

S1024x1024 == <<"1","0","2","4","x","1","0","2","4">>

S1536x1024 == <<"1","5","3","6","x","1","0","2","4">>

S1024x1536 == <<"1","0","2","4","x","1","5","3","6">>

SAuto == <<"a","u","t","o">>

ValidSizes == {S1024x1024, S1536x1024, S1024x1536, SAuto}

aspectRatioKeys ==
    { <<"1",":","1">>, <<"s","q","u","a","r","e">>,
      <<"1","6",":","9">>, <<"l","a","n","d","s","c","a","p","e">>,
      <<"9",":","1","6">>, <<"p","o","r","t","r","a","i","t">>,
      <<"3",":","2">>, <<"2",":","3">>, <<"4",":","3">>, <<"3",":","4">> }

aspectRatioMap(k) ==
    CASE k \in {<<"1",":","1">>, <<"s","q","u","a","r","e">>,
                <<"4",":","3">>, <<"3",":","4">>} -> S1024x1024
      [] k \in {<<"1","6",":","9">>, <<"l","a","n","d","s","c","a","p","e">>,
                <<"3",":","2">>} -> S1536x1024
      [] k \in {<<"9",":","1","6">>, <<"p","o","r","t","r","a","i","t">>,
                <<"2",":","3">>} -> S1024x1536

parseSize(input) ==
    IF input \in ValidSizes THEN input
    ELSE LET normalizedInput == RemoveChars(toLowerCase(input), WhitespaceChars)
         IN  IF normalizedInput \in aspectRatioKeys
             THEN aspectRatioMap(normalizedInput)
             ELSE input

\* ------------------------------------------------------------------------
\* absolutePathCheck, base64Check (index.ts 261-269)
\* ------------------------------------------------------------------------

\* /^[a-zA-Z]:[/\\]/.test(val)
DriveLetterPrefix(val) ==
    Len(val) >= 3 /\ val[1] \in Letters /\ val[2] = ":" /\ val[3] \in {"/", "\\"}

\* val is a string, or Undefined wrapped as <<>> by the caller's Opt.
absolutePathCheck(val) ==
    IF val = <<>> THEN TRUE
    ELSE IF val[1] = "/" THEN TRUE
    ELSE IF DriveLetterPrefix(val) THEN TRUE
    ELSE FALSE

Base64Alphabet ==
    Letters \cup Range(DigitSeq) \cup {"+", "/", "=", "\r", "\n"}

DataImagePrefix == <<"d","a","t","a",":","i","m","a","g","e","/">>

base64Check(val) ==
    val # <<>> /\ (Range(val) \subseteq Base64Alphabet \/ startsWith(val, DataImagePrefix))

\* ------------------------------------------------------------------------
\* path.parse and path.join of a POSIX host (used at index.ts 214-241, 413-439)
\* ------------------------------------------------------------------------

\* path.posix.parse(p): [dir, name, ext]
pathParse(p) ==
    IF p = <<>> THEN [dir |-> <<>>, name |-> <<>>, ext |-> <<>>]
    ELSE
    LET isAbsolute == p[1] = "/"
        start == IF isAbsolute THEN 2 ELSE 1
        \* 1-based index of the last character of the base (trailing slashes skipped)
        endIdx == SkipBackward(p, {"/"}, Len(p))
        \* index of the slash before the base, not looking below start
        slash == LastIndexIn(p, {"/"}, endIdx)
        sep == IF slash >= start THEN slash ELSE 0
        baseFrom == IF sep > 0 THEN sep + 1 ELSE start
        base == IF endIdx < baseFrom THEN <<>> ELSE SubSeq(p, baseFrom, endIdx)
        dot == LastIndexIn(base, {"."}, Len(base))
        noExt == dot = 0 \/ dot = 1 \/ base = <<".", ".">>
        dir == IF sep > 0 THEN SubSeq(p, 1, sep - 1)
               ELSE IF isAbsolute THEN <<"/">> ELSE <<>>
    IN  [dir |-> dir,
         name |-> IF noExt THEN base ELSE SubSeq(base, 1, dot - 1),
         ext |-> IF noExt THEN <<>> ELSE SubSeq(base, dot, Len(base))]

\* The segments of p between slashes, empty ones included.
RECURSIVE Segments(_)
Segments(p) ==
    LET i == SkipForward(p, Range(p) \ {"/"}, 1)
    IN  IF i > Len(p) THEN <<p>>
        ELSE <<SubSeq(p, 1, i - 1)>> \o Segments(SubSeq(p, i + 1, Len(p)))

\* normalizeString: resolve "." and ".." over the segments, left to right.
RECURSIVE ResolveSegments(_, _, _)
ResolveSegments(segs, acc, allowAboveRoot) ==
    IF segs = <<>> THEN acc
    ELSE LET s == Head(segs)
             rest == Tail(segs)
         IN  IF s = <<>> \/ s = <<".">> THEN ResolveSegments(rest, acc, allowAboveRoot)
             ELSE IF s = <<".", ".">>
             THEN IF acc # <<>> /\ acc[Len(acc)] # <<".", ".">>
                  THEN ResolveSegments(rest, SubSeq(acc, 1, Len(acc) - 1), allowAboveRoot)
                  ELSE IF allowAboveRoot
                  THEN ResolveSegments(rest, Append(acc, s), allowAboveRoot)
                  ELSE ResolveSegments(rest, acc, allowAboveRoot)
             ELSE ResolveSegments(rest, Append(acc, s), allowAboveRoot)

RECURSIVE JoinSegments(_)
JoinSegments(segs) ==
    IF segs = <<>> THEN <<>>
    ELSE IF Len(segs) = 1 THEN segs[1]
    ELSE segs[1] \o <<"/">> \o JoinSegments(Tail(segs))

\* path.posix.normalize(p)
pathNormalize(p) ==
    IF p = <<>> THEN <<".">>
    ELSE
    LET isAbsolute == p[1] = "/"
        trailing == p[Len(p)] = "/"
        body == JoinSegments(ResolveSegments(Segments(p), <<>>, ~isAbsolute))
        body2 == IF body = <<>> /\ ~isAbsolute THEN <<".">> ELSE body
        body3 == IF body2 # <<>> /\ trailing THEN body2 \o <<"/">> ELSE body2
    IN  IF isAbsolute THEN <<"/">> \o body3 ELSE body3

\* path.posix.join(a, b): empty arguments are skipped, the rest joined by "/"
\* and normalized.
pathJoin(a, b) ==
    IF a = <<>> /\ b = <<>> THEN <<".">>
    ELSE IF a = <<>> THEN pathNormalize(b)
    ELSE IF b = <<>> THEN pathNormalize(a)
    ELSE pathNormalize(a \o <<"/">> \o b)

\* ------------------------------------------------------------------------
\* Buffer.byteLength(b64, "base64") (used at index.ts 205, 404)
\* ------------------------------------------------------------------------

\* A base64 text returned by the upstream call is known by its length and its
\* number of trailing "=" characters: [len, pad].  Node computes the decoded
\* length from these two alone: ((len - pad) * 3) >>> 2.
base64ByteLength(b64) == ((b64.len - b64.pad) * 3) \div 4

MAX_RESPONSE_SIZE == 1048576

RECURSIVE totalBase64Size(_)
totalBase64Size(images) ==
    IF images = <<>> THEN 0
    ELSE base64ByteLength(Head(images).b64) + totalBase64Size(Tail(images))

\* the same with >= in place of >
AutoSwitchMutant(output, total) == output = "base64" /\ total >= MAX_RESPONSE_SIZE

\* output === "base64" && totalBase64Size > MAX_RESPONSE_SIZE  (208, 407)
AutoSwitch(output, total) == output = "base64" /\ total > MAX_RESPONSE_SIZE

\* ------------------------------------------------------------------------
\* Inputs of the model
\* ------------------------------------------------------------------------

\* 10 decoded bytes.
B64Small == [len |-> 16, pad |-> 2]

\* 1,048,576 decoded bytes, exactly MAX_RESPONSE_SIZE, in 1,398,104 characters.
B64Limit == [len |-> 1398104, pad |-> 2]

Payloads == {B64Small, B64Limit}

\* What openai.images.generate / edit may return in data[].b64_json.
UpstreamResults == UNION {[1..n -> Payloads] : n \in 0..MaxImages}

SizeTokens ==
    { Undefined,
      Some(S1024x1024),
      Some(SAuto),
      Some(<<"1","6",":","9">>),
      Some(<<" ","S","q","u","a","r","e">>),
      Some(<<"f","o","o">>),
      Some(<<" ","F","O","O">>),
      Some(<<>>) }

FileOutputs ==
    { Undefined,
      Some(<<>>),
      Some(<<"/","t","/","x",".","p","n","g">>),
      Some(<<"/","t","/","x">>),
      Some(<<"C",":","/","o",".","p","n","g">>),
      Some(<<"x",".","p","n","g">>) }

Filenames ==
    { Undefined,
      Some(<<".",".","/","e">>) }

ImageInputs ==
    { <<"/","a",".","j","p","g">>,
      <<"Q","Q","=","=">>,
      <<"d","a","t","a",":","i","m","a","g","e","/","w","e","b","p",";","b","a","s","e","6","4",",","Q","Q">>,
      <<>>,
      <<"n","o","t","-","b","6","4","!">> }

MaskInputs ==
    { Undefined,
      Some(<<>>),
      Some(<<"/","m",".","p","n","g">>),
      Some(<<"b","a","d","!">>) }

\* The arguments vary in two families: the fields the validation reads
\* (delivered inline to the default place), and the fields the delivery reads
\* (with the other fields valid).
CreateArgs ==
    [ size : SizeTokens,
      background : {"undefined", "transparent", "opaque"},
      output_format : {"undefined", "png", "jpeg", "webp"},
      output : {"base64"},
      file_output : {Undefined},
      filename : {Undefined},
      image : {<<>>},
      mask : {Undefined} ]
    \cup
    [ size : {Undefined},
      background : {"undefined"},
      output_format : {"undefined", "png", "jpeg", "webp"},
      output : {"base64", "file_output"},
      file_output : FileOutputs,
      filename : Filenames,
      image : {<<>>},
      mask : {Undefined} ]

EditArgs ==
    [ size : SizeTokens,
      background : {"undefined"},
      output_format : {"undefined"},
      output : {"base64"},
      file_output : {Undefined},
      filename : {Undefined},
      image : ImageInputs,
      mask : MaskInputs ]
    \cup
    [ size : {Undefined},
      background : {"undefined"},
      output_format : {"undefined"},
      output : {"base64", "file_output"},
      file_output : FileOutputs,
      filename : Filenames,
      image : {<<"/","a",".","j","p","g">>},
      mask : {Undefined} ]

\* os.homedir()
HomeDir == <<"/","h">>

\* process.env.MCP_HF_WORK_DIR
WorkDirs == { Undefined, Some(<<"/","w">>), Some(<<"w">>) }

\* Date.now()
Timestamps == {7, 12}

\* ------------------------------------------------------------------------
\* State
\* ------------------------------------------------------------------------

VARIABLES
    pc,         \* where the invocation is: idle, resolve, upstream, write, done, failed
    op,         \* "none", "create" or "edit": the tool invoked
    args,       \* the arguments of the invocation
    request,    \* the parameters of the upstream call, <<>> before it is made
    calls,      \* number of upstream calls made
    images,     \* the payloads the upstream call returned, with mimeType and ext
    effectiveOutput, \* "none" before routing, then "base64" or "file_output"
    basePath,   \* effectiveFileOutput when delivering by file, <<>> otherwise
    written,    \* the paths fs.writeFile has written, in order
    response,   \* the content the handler returned, <<>> before it returns
    error,      \* the error the invocation failed with
    sanIn,      \* the string handed to sanitizeFilename on its own
    sanOut,     \* its result and the default destination built from it
    inv,        \* two invocations in flight in the one process, each with its own locals
    env         \* what they share: Date.now() and whether the default directory can be made

vars == <<pc, op, args, request, calls, images, effectiveOutput, basePath, written, response, error,
          sanIn, sanOut, inv, env>>

NoError == [kind |-> "none", stage |-> "none", fields |-> {}, quoted |-> {}]

NoSan == [done |-> FALSE, name |-> <<>>, dir |-> <<>>, dest |-> <<>>]

NoArgs ==
    [ size |-> Undefined, background |-> "undefined", output_format |-> "undefined",
      output |-> "base64", file_output |-> Undefined, filename |-> Undefined,
      image |-> <<>>, mask |-> Undefined ]

\* The invocations that run concurrently.
Invocations == {1, 2}

NoInvocation ==
    [ pc |-> "idle", op |-> "none", args |-> NoArgs, images |-> <<>>,
      basePath |-> <<>>, written |-> <<>> ]

NoEnv == [now |-> 0, mkdirOk |-> TRUE]

Init ==
    /\ pc = "idle"
    /\ op = "none"
    /\ args = NoArgs
    /\ request = <<>>
    /\ calls = 0
    /\ images = <<>>
    /\ effectiveOutput = "none"
    /\ basePath = <<>>
    /\ written = <<>>
    /\ response = <<>>
    /\ error = NoError
    /\ sanIn = <<>>
    /\ sanOut = NoSan
    /\ inv = [k \in Invocations |-> NoInvocation]
    /\ env = NoEnv

\* ------------------------------------------------------------------------
\* Shape-level validation: z.object(shape).safeParse(arguments), run by
\* server.tool before the handler (shapes at index.ts 97-120 and 276-289)
\* ------------------------------------------------------------------------

\* size: z.string().optional() in place of the enum
SizeShapeOkMutant(size) == TRUE

\* size: z.enum(["1024x1024", "1536x1024", "1024x1536", "auto"]).optional()

SizeShapeOk(size) == size = Undefined \/ size[1] \in ValidSizes

\* file_output: z.string().optional().refine(...) of create-image (109-118)
CreateFileOutputShapeOk(fo) ==
    IF ~Truthy(fo) THEN TRUE
    ELSE IF fo[1][1] = "/" THEN TRUE
    ELSE IF DriveLetterPrefix(fo[1]) THEN TRUE
    ELSE FALSE

\* file_output: z.string().refine(absolutePathCheck).optional() of edit-image (286)
EditFileOutputShapeOk(fo) == fo = Undefined \/ absolutePathCheck(fo[1])

\* The issues zod reports: the fields that fail and the values it quotes
\* ("received ..." for an enum; the refinement's fixed message quotes nothing).
ShapeError(sizeOk, fileOutputOk, a) ==
    [ kind |-> "InvalidParameter", stage |-> "shape",
      fields |-> (IF sizeOk THEN {} ELSE {"size"})
                 \cup (IF fileOutputOk THEN {} ELSE {"file_output"}),
      quoted |-> IF sizeOk THEN {} ELSE {a.size[1]} ]

\* editImageSchema's refinement (index.ts 292-299), run by editImageSchema.parse
EditRefineOk(a) ==
    IF a.output # "file_output" THEN TRUE
    ELSE IF a.file_output = Undefined THEN FALSE
    ELSE absolutePathCheck(a.file_output[1])

\* ------------------------------------------------------------------------
\* The handlers up to the upstream call
\* ------------------------------------------------------------------------

\* const size = sizeRaw ? parseSize(sizeRaw) : sizeRaw   (159, 334)
NormalizedSize(sizeRaw) == IF Truthy(sizeRaw) THEN Some(parseSize(sizeRaw[1])) ELSE sizeRaw

\* if (size && !valid.includes(size)) throw ...   (162-167, 337-342)
SizeRejected(size) == Truthy(size) /\ size[1] \notin ValidSizes

SizeError(sizeRaw) ==
    [ kind |-> "InvalidParameter", stage |-> "handler",
      fields |-> {"size"}, quoted |-> {sizeRaw[1]} ]

\* background === "transparent" && output_format && !["png","webp"].includes(output_format)
\* the same with "jpeg" listed in place of "webp"
TransparentRejectedMutant(background, output_format) ==
    background = "transparent" /\ output_format # "undefined"
        /\ output_format \notin {"png", "jpeg"}

TransparentRejected(background, output_format) ==
    background = "transparent" /\ output_format # "undefined"
        /\ output_format \notin {"png", "webp"}

TransparentError ==
    [ kind |-> "InvalidParameter", stage |-> "handler",
      fields |-> {"background", "output_format"}, quoted |-> {} ]

\* imageParams (175-185): only the supplied fields are carried
imageParams(a, size) ==
    [ call |-> "generate",
      background |-> a.background,
      output_format |-> a.output_format,
      size |-> IF Truthy(size) THEN size ELSE Undefined,
      image |-> <<>>,
      mask |-> <<>> ]

\* What the create-image call does before it awaits the upstream call:
\* [ok, error, request].
CreateOutcome(a) ==
    LET sizeOk == SizeShapeOk(a.size)
        foOk == CreateFileOutputShapeOk(a.file_output)
        size == NormalizedSize(a.size)
    IN  IF ~(sizeOk /\ foOk)
        THEN [ok |-> FALSE, error |-> ShapeError(sizeOk, foOk, a), request |-> <<>>]
        ELSE IF SizeRejected(size)
        THEN [ok |-> FALSE, error |-> SizeError(a.size), request |-> <<>>]
        ELSE IF TransparentRejected(a.background, a.output_format)
        THEN [ok |-> FALSE, error |-> TransparentError, request |-> <<>>]
        ELSE [ok |-> TRUE, error |-> NoError, request |-> <<imageParams(a, size)>>]

CreateImage(a) ==
    /\ pc = "idle"
    /\ LET out == CreateOutcome(a)
       IN  /\ pc' = IF out.ok THEN "upstream" ELSE "failed"
           /\ error' = out.error
           /\ request' = out.request
           /\ calls' = IF out.ok THEN calls + 1 ELSE calls
    /\ op' = "create"
    /\ args' = a
    /\ UNCHANGED <<images, effectiveOutput, basePath, written, response, sanIn, sanOut, inv, env>>

InputError(field) ==
    [ kind |-> "InvalidInput", stage |-> "handler", fields |-> {field}, quoted |-> {} ]

RefineError ==
    [ kind |-> "InvalidParameter", stage |-> "handler",
      fields |-> {"file_output"}, quoted |-> {} ]

\* What the edit-image call does before it resolves its inputs: [ok, error].
EditOutcome(a) ==
    LET sizeOk == SizeShapeOk(a.size)
        foOk == EditFileOutputShapeOk(a.file_output)
        size == NormalizedSize(a.size)
    IN  IF ~(sizeOk /\ foOk)
        THEN [ok |-> FALSE, error |-> ShapeError(sizeOk, foOk, a)]
        ELSE IF ~EditRefineOk(a)
        THEN [ok |-> FALSE, error |-> RefineError]
        ELSE IF ~absolutePathCheck(a.image) /\ ~base64Check(a.image)
        THEN [ok |-> FALSE, error |-> InputError("image")]
        ELSE IF Truthy(a.mask) /\ ~absolutePathCheck(a.mask[1]) /\ ~base64Check(a.mask[1])
        THEN [ok |-> FALSE, error |-> InputError("mask")]
        ELSE IF SizeRejected(size)
        THEN [ok |-> FALSE, error |-> SizeError(a.size)]
        ELSE [ok |-> TRUE, error |-> NoError]

EditImage(a) ==
    /\ pc = "idle"
    /\ LET out == EditOutcome(a)
       IN  /\ pc' = IF out.ok THEN "resolve" ELSE "failed"
           /\ error' = out.error
    /\ op' = "edit"
    /\ args' = a
    /\ UNCHANGED <<request, calls, images, effectiveOutput, basePath, written, response,
                   sanIn, sanOut, inv, env>>

\* ------------------------------------------------------------------------
\* inputToFile (index.ts 345-370) and the edit-image upstream call
\* ------------------------------------------------------------------------

ImagePng == <<"i","m","a","g","e","/","p","n","g">>

ImageJpeg == <<"i","m","a","g","e","/","j","p","e","g">>

ImageWebp == <<"i","m","a","g","e","/","w","e","b","p">>

\* input.split('.').pop()?.toLowerCase()
LastDotPart(input) ==
    toLowerCase(SubSeq(input, LastIndexIn(input, {"."}, Len(input)) + 1, Len(input)))

PathMime(input) ==
    LET ext == LastDotPart(input)
    IN  IF ext = <<"j","p","g">> \/ ext = <<"j","p","e","g">> THEN ImageJpeg
        ELSE IF ext = <<"w","e","b","p">> THEN ImageWebp
        ELSE ImagePng

WordChars == Letters \cup Range(DigitSeq) \cup {"_"}

Base64Marker == <<";","b","a","s","e","6","4",",">>

\* input.match(/^data:(image\/\w+);base64,(.*)$/): [matched, mime, base64]
DataUrlMatch(input) ==
    LET from == Len(DataImagePrefix) + 1
        k == SkipForward(input, WordChars, from)
        rest == SubSeq(input, k + Len(Base64Marker), Len(input))
        matched == /\ startsWith(input, DataImagePrefix)
                   /\ k > from
                   /\ SubSeq(input, k, k + Len(Base64Marker) - 1) = Base64Marker
                   /\ Range(rest) \cap {"\n", "\r"} = {}
    IN  IF matched
        THEN [matched |-> TRUE, mime |-> SubSeq(input, 6, k - 1), base64 |-> rest]
        ELSE [matched |-> FALSE, mime |-> ImagePng, base64 |-> input]

\* mime.split("/")[1] || "png"
MimeSubtype(mime) ==
    LET parts == Segments(mime)
    IN  IF Len(parts) >= 2 /\ parts[2] # <<>> THEN parts[2] ELSE <<"p","n","g">>

\* What inputToFile hands to toFile: a read stream of the path, or the decoded
\* buffer under a synthetic name.
inputToFile(input, idx) ==
    IF absolutePathCheck(input)
    THEN [source |-> "stream", path |-> input, type |-> PathMime(input), name |-> <<>>]
    ELSE LET m == IF startsWith(input, DataImagePrefix) THEN DataUrlMatch(input)
                  ELSE [matched |-> FALSE, mime |-> ImagePng, base64 |-> input]
         IN  [source |-> "buffer", path |-> m.base64, type |-> m.mime,
              name |-> <<"i","n","p","u","t","_">> \o Decimal(idx) \o <<".">>
                       \o MimeSubtype(m.mime)]

\* editParams (379-389)
editParams(a, size) ==
    [ call |-> "edit",
      background |-> "undefined",
      output_format |-> "undefined",
      size |-> IF Truthy(size) THEN size ELSE Undefined,
      image |-> <<inputToFile(a.image, 0)>>,
      mask |-> IF Truthy(a.mask) THEN <<inputToFile(a.mask[1], 1)>> ELSE <<>> ]

\* The inputs toFile reads from the file system.
StreamInputs(a) ==
    (IF absolutePathCheck(a.image) THEN {<<"image", a.image>>} ELSE {})
    \cup (IF Truthy(a.mask) /\ absolutePathCheck(a.mask[1])
          THEN {<<"mask", a.mask[1]>>} ELSE {})

\* await inputToFile(imageInput, 0); await inputToFile(maskInput, 1); then the
\* upstream call is issued.  Reading a path may fail; reading "" always does.
ResolveInputs ==
    /\ pc = "resolve"
    /\ \/ /\ \A f \in StreamInputs(args) : f[2] # <<>>
          /\ pc' = "upstream"
          /\ request' = <<editParams(args, NormalizedSize(args.size))>>
          /\ calls' = calls + 1
          /\ UNCHANGED error
       \/ \E f \in StreamInputs(args) :
          /\ pc' = "failed"
          /\ error' = [ kind |-> "FilesystemFailure", stage |-> "resolve",
                        fields |-> {f[1]}, quoted |-> {} ]
          /\ UNCHANGED <<request, calls>>
    /\ UNCHANGED <<op, args, images, effectiveOutput, basePath, written, response,
                   sanIn, sanOut, inv, env>>

\* openai.images.generate / edit rejects and the mutant issues the call a
\* second time before giving up.
UpstreamFailsMutant ==
    /\ pc = "upstream"
    /\ IF calls < 2
       THEN /\ pc' = "upstream"
            /\ calls' = calls + 1
            /\ UNCHANGED error
       ELSE /\ pc' = "failed"
            /\ error' = [ kind |-> "UpstreamFailure", stage |-> "upstream",
                          fields |-> {}, quoted |-> {} ]
            /\ UNCHANGED calls
    /\ UNCHANGED <<op, args, request, images, effectiveOutput, basePath,
                   written, response, sanIn, sanOut, inv, env>>

\* openai.images.generate / edit rejects: the handler has no catch.
UpstreamFails ==
    /\ pc = "upstream"
    /\ pc' = "failed"
    /\ error' = [ kind |-> "UpstreamFailure", stage |-> "upstream",
                  fields |-> {}, quoted |-> {} ]
    /\ UNCHANGED <<op, args, request, calls, images, effectiveOutput, basePath,
                   written, response, sanIn, sanOut, inv, env>>

\* ------------------------------------------------------------------------
\* Output routing (index.ts 196-256, 393-455)
\* ------------------------------------------------------------------------

\* (result.data ?? []).map(...) of create-image (197-201) and edit-image (396-400)
ToImages(o, fmt, result) ==
    [ i \in 1..Len(result) |->
        [ b64 |-> result[i],
          mimeType |-> IF o = "edit" THEN ImagePng
                       ELSE IF fmt = "jpeg" THEN ImageJpeg
                       ELSE IF fmt = "webp" THEN ImageWebp ELSE ImagePng,
          ext |-> IF o = "edit" THEN <<"p","n","g">>
                  ELSE IF fmt = "jpeg" THEN <<"j","p","g">>
                  ELSE IF fmt = "webp" THEN <<"w","e","b","p">> ELSE <<"p","n","g">> ] ]

PicturesDir == pathJoin(pathJoin(HomeDir, <<"P","i","c","t","u","r","e","s">>),
                        <<"g","p","t","-","i","m","a","g","e">>)

\* getDefaultOutputDir (25-39): mkdirOk is whether mkdir of the default
\* directory succeeds, workDir is process.env.MCP_HF_WORK_DIR.
getDefaultOutputDir(mkdirOk, workDir) ==
    IF mkdirOk THEN PicturesDir
    ELSE IF Truthy(workDir) THEN workDir[1] ELSE <<"/","t","m","p">>

\* filename ? sanitizeFilename(filename) : `openai_image_${Date.now()}`  (213, 412)
baseFilename(o, filename, now) ==
    IF Truthy(filename) THEN sanitizeFilename(filename[1])
    ELSE (IF o = "edit"
          THEN <<"o","p","e","n","a","i","_","i","m","a","g","e","_","e","d","i","t","_">>
          ELSE <<"o","p","e","n","a","i","_","i","m","a","g","e","_">>) \o Decimal(now)

\* path.join(defaultDir, `${baseFilename}.${images[0]?.ext ?? "png"}`)  (214, 413)
DefaultFileOutput(o, imgs, filename, defaultDir, now) ==
    pathJoin(defaultDir,
             baseFilename(o, filename, now) \o <<".">>
                 \o (IF o = "create" /\ imgs # <<>> THEN imgs[1].ext ELSE <<"p","n","g">>))

\* effectiveOutput and effectiveFileOutput (206-227, 405-423)
Route(o, a, imgs, defaultDir, now) ==
    LET switch == AutoSwitch(a.output, totalBase64Size(imgs))
        effOut == IF switch THEN "file_output" ELSE a.output
        dflt == Some(DefaultFileOutput(o, imgs, a.filename, defaultDir, now))
        eff1 == IF switch /\ ~Truthy(a.file_output) THEN dflt ELSE a.file_output
        eff2 == IF effOut = "file_output" /\ ~Truthy(eff1) THEN dflt ELSE eff1
    IN  [effectiveOutput |-> effOut, effectiveFileOutput |-> eff2]

\* The inline response (249-255, 448-454)
InlineContent(imgs) ==
    [ i \in 1..Len(imgs) |->
        [type |-> "image", data |-> imgs[i].b64, mimeType |-> imgs[i].mimeType, text |-> <<>>] ]

UpstreamReturns(result, mkdirOk, workDir, now) ==
    /\ pc = "upstream"
    /\ LET imgs == ToImages(op, args.output_format, result)
           r == Route(op, args, imgs, getDefaultOutputDir(mkdirOk, workDir), now)
       IN  /\ images' = imgs
           /\ effectiveOutput' = r.effectiveOutput
           /\ IF r.effectiveOutput = "file_output"
              THEN /\ basePath' = r.effectiveFileOutput[1]
                   /\ pc' = IF imgs = <<>> THEN "done" ELSE "write"
                   /\ response' = <<>>
              ELSE /\ basePath' = <<>>
                   /\ pc' = "done"
                   /\ response' = InlineContent(imgs)
    /\ UNCHANGED <<op, args, request, calls, written, error, sanIn, sanOut, inv, env>>

\* filePath of the i-th payload, i counted from 0 (232-242, 427-440)
FilePath(o, base, imgs, i) ==
    LET parsed == pathParse(base)
        img == imgs[i + 1]
        ext == IF o = "edit" /\ parsed.ext # <<>> THEN parsed.ext ELSE <<".">> \o img.ext
    IN  IF Len(imgs) > 1
        THEN pathJoin(parsed.dir, parsed.name \o <<"_">> \o Decimal(i + 1) \o ext)
        ELSE pathJoin(parsed.dir, parsed.name \o ext)

ImageSavedTo ==
    <<"I","m","a","g","e"," ","s","a","v","e","d"," ","t","o",":"," ",
      "f","i","l","e",":","/","/">>

SavedEntry(filePath) ==
    [type |-> "text", data |-> [len |-> 0, pad |-> 0], mimeType |-> <<>>,
     text |-> ImageSavedTo \o filePath]

\* responses, the handler's local list: one entry is pushed right after each
\* write, so it is determined by the paths written.
Responses(paths) == [i \in 1..Len(paths) |-> SavedEntry(paths[i])]

\* One turn of the write loop (243-244, 441-443): the write failed and the
\* mutant removes what the invocation wrote before.
WriteFileMutant ==
    /\ pc = "write"
    /\ LET i == Len(written)
           filePath == FilePath(op, basePath, images, i)
       IN  \/ /\ written' = Append(written, filePath)
              /\ pc' = IF i + 1 = Len(images) THEN "done" ELSE "write"
              /\ response' = IF i + 1 = Len(images) THEN Responses(written') ELSE response
              /\ UNCHANGED error
           \/ /\ pc' = "failed"
              /\ error' = [ kind |-> "FilesystemFailure", stage |-> "write",
                            fields |-> {}, quoted |-> {} ]
              /\ written' = <<>>
              /\ UNCHANGED response
    /\ UNCHANGED <<op, args, request, calls, images, effectiveOutput, basePath,
                   sanIn, sanOut, inv, env>>

\* One turn of the write loop (243-244, 441-443): await fs.writeFile(filePath, ...)
\* then responses.push(...); the handler returns after the last turn.  A write
\* that rejects ends the handler: nothing catches it.
WriteFile ==
    /\ pc = "write"
    /\ LET i == Len(written)
           filePath == FilePath(op, basePath, images, i)
       IN  \/ /\ written' = Append(written, filePath)
              /\ pc' = IF i + 1 = Len(images) THEN "done" ELSE "write"
              /\ response' = IF i + 1 = Len(images) THEN Responses(written') ELSE response
              /\ UNCHANGED error
           \/ /\ pc' = "failed"
              /\ error' = [ kind |-> "FilesystemFailure", stage |-> "write",
                            fields |-> {}, quoted |-> {} ]
              /\ UNCHANGED <<written, response>>
    /\ UNCHANGED <<op, args, request, calls, images, effectiveOutput, basePath,
                   sanIn, sanOut, inv, env>>

Next ==
    \/ \E a \in CreateArgs : CreateImage(a)
    \/ \E a \in EditArgs : EditImage(a)
    \/ ResolveInputs
    \/ UpstreamFails
    \/ \E result \in UpstreamResults, mkdirOk \in BOOLEAN, workDir \in WorkDirs,
          now \in Timestamps :
          UpstreamReturns(result, mkdirOk, workDir, now)
    \/ WriteFile

Spec == Init /\ [][Next]_vars

\* ------------------------------------------------------------------------
\* sanitizeFilename on its own: every enumerated string is sanitized and the
\* default destination of index.ts 212-214 is built from it
\* ------------------------------------------------------------------------

NameAlphabet == {"a", ".", "/", "\\", " ", "\n", "DEL", ":"}

ShortNames == UNION {[1..n -> NameAlphabet] : n \in 0..MaxNameLen}

\* One character short of the limit, so that the names built on it have 199,
\* 200, 201, ... characters.
LongPad == [i \in 1..(FILENAME_MAX - 1) |-> "a"]

NameInputs == ShortNames \cup {LongPad \o n : n \in ShortNames}

InitSanitize ==
    /\ pc = "idle"
    /\ op = "none"
    /\ args = NoArgs
    /\ request = <<>>
    /\ calls = 0
    /\ images = <<>>
    /\ effectiveOutput = "none"
    /\ basePath = <<>>
    /\ written = <<>>
    /\ response = <<>>
    /\ error = NoError
    /\ sanIn \in NameInputs
    /\ sanOut = NoSan
    /\ inv = [k \in Invocations |-> NoInvocation]
    /\ env = NoEnv

SanitizeName(mkdirOk, workDir) ==
    /\ ~sanOut.done
    /\ LET dir == getDefaultOutputDir(mkdirOk, workDir)
       IN  sanOut' =
             [ done |-> TRUE,
               name |-> sanitizeFilename(sanIn),
               dir |-> dir,
               dest |-> IF sanIn # <<>>
                        THEN DefaultFileOutput("create", <<>>, Some(sanIn), dir, 0)
                        ELSE <<>> ]
    /\ UNCHANGED <<pc, op, args, request, calls, images, effectiveOutput, basePath,
                   written, response, error, sanIn, inv, env>>

NextSanitize ==
    \E mkdirOk \in BOOLEAN, workDir \in WorkDirs : SanitizeName(mkdirOk, workDir)

SpecSanitize == InitSanitize /\ [][NextSanitize]_vars

\* ------------------------------------------------------------------------
\* Two invocations in one process.  Each handler is an async function: its
\* awaits (input reading, the upstream call, each writeFile) are the points
\* where the other invocation's steps interleave.  The invocations share the
\* clock and the file system, nothing else.
\* ------------------------------------------------------------------------

\* Arguments without file_output, so that file delivery goes to the default
\* directory.
ConcurrentArgs(o) ==
    { a \in (IF o = "create" THEN CreateArgs ELSE EditArgs) :
        /\ a.file_output = Undefined
        /\ a.size = Undefined
        /\ a.background = "undefined"
        /\ a.output_format = "undefined"
        /\ a.mask = Undefined
        /\ o = "edit" => a.image = <<"/","a",".","j","p","g">> }

\* Upstream results of up to two equal payloads.
ConcurrentResults ==
    { r \in UpstreamResults : Len(r) <= 2 /\ \A i \in 1..Len(r) : r[i] = r[1] }

InitConcurrent ==
    /\ pc = "idle"
    /\ op = "none"
    /\ args = NoArgs
    /\ request = <<>>
    /\ calls = 0
    /\ images = <<>>
    /\ effectiveOutput = "none"
    /\ basePath = <<>>
    /\ written = <<>>
    /\ response = <<>>
    /\ error = NoError
    /\ sanIn = <<>>
    /\ sanOut = NoSan
    /\ inv = [k \in Invocations |-> NoInvocation]
    /\ \E t \in Timestamps, b \in BOOLEAN : env = [now |-> t, mkdirOk |-> b]

Single == <<pc, op, args, request, calls, images, effectiveOutput, basePath, written,
            response, error, sanIn, sanOut>>

\* The handler of create-image (138-194) or edit-image (305-330) up to its
\* first await.
Invoke(k, o, a) ==
    /\ inv[k].pc = "idle"
    /\ LET ok == IF o = "create" THEN CreateOutcome(a).ok ELSE EditOutcome(a).ok
       IN  inv' = [inv EXCEPT ![k].op = o,
                              ![k].args = a,
                              ![k].pc = IF ~ok THEN "failed"
                                        ELSE IF o = "edit" THEN "resolve" ELSE "upstream"]
    /\ UNCHANGED <<Single, env>>

\* The inputToFile awaits of edit-image: reading a path may fail.
ResolveInputsOf(k) ==
    /\ inv[k].pc = "resolve"
    /\ \/ /\ \A f \in StreamInputs(inv[k].args) : f[2] # <<>>
          /\ inv' = [inv EXCEPT ![k].pc = "upstream"]
       \/ /\ StreamInputs(inv[k].args) # {}
          /\ inv' = [inv EXCEPT ![k].pc = "failed"]
    /\ UNCHANGED <<Single, env>>

\* The upstream call rejects.
UpstreamFailsOf(k) ==
    /\ inv[k].pc = "upstream"
    /\ inv' = [inv EXCEPT ![k].pc = "failed"]
    /\ UNCHANGED <<Single, env>>

\* The upstream call returns and the handler runs, without an await, up to
\* its first writeFile: Date.now() is read here (213, 225, 412, 421).
UpstreamReturnsTo(k, result) ==
    /\ inv[k].pc = "upstream"
    /\ LET o == inv[k].op
           a == inv[k].args
           imgs == ToImages(o, a.output_format, result)
           r == Route(o, a, imgs, getDefaultOutputDir(env.mkdirOk, Undefined), env.now)
       IN  inv' = [inv EXCEPT
                     ![k].images = imgs,
                     ![k].basePath = IF r.effectiveOutput = "file_output"
                                     THEN r.effectiveFileOutput[1] ELSE <<>>,
                     ![k].pc = IF r.effectiveOutput = "file_output" /\ imgs # <<>>
                               THEN "write" ELSE "done"]
    /\ UNCHANGED <<Single, env>>

\* One turn of the write loop of invocation k (243-244, 441-443).
WriteFileOf(k) ==
    /\ inv[k].pc = "write"
    /\ LET i == Len(inv[k].written)
           filePath == FilePath(inv[k].op, inv[k].basePath, inv[k].images, i)
       IN  \/ inv' = [inv EXCEPT
                        ![k].written = Append(@, filePath),
                        ![k].pc = IF i + 1 = Len(inv[k].images) THEN "done" ELSE "write"]
           \/ inv' = [inv EXCEPT ![k].pc = "failed"]
    /\ UNCHANGED <<Single, env>>

\* A millisecond boundary passes.
Tick ==
    /\ \E t \in Timestamps : t > env.now /\ env' = [env EXCEPT !.now = t]
    /\ UNCHANGED <<Single, inv>>

NextConcurrent ==
    \/ \E k \in Invocations, o \in {"create", "edit"} :
          \E a \in ConcurrentArgs(o) : Invoke(k, o, a)
    \/ \E k \in Invocations : ResolveInputsOf(k)
    \/ \E k \in Invocations : UpstreamFailsOf(k)
    \/ \E k \in Invocations, result \in ConcurrentResults : UpstreamReturnsTo(k, result)
    \/ \E k \in Invocations : WriteFileOf(k)
    \/ Tick

SpecConcurrent == InitConcurrent /\ [][NextConcurrent]_vars

\* ------------------------------------------------------------------------
\* Properties
\* ------------------------------------------------------------------------

\* The number of characters of base64 text a response carries in its image entries.
RECURSIVE EncodedLength(_)
EncodedLength(content) ==
    IF content = <<>> THEN 0
    ELSE (IF Head(content).type = "image" THEN Head(content).data.len ELSE 0)
         + EncodedLength(Tail(content))

AllInline(content) ==
    /\ Len(content) = Len(images)
    /\ \A i \in 1..Len(content) :
          /\ content[i].type = "image"
          /\ content[i].data = images[i].b64
          /\ content[i].mimeType = images[i].mimeType

AllSaved(content) ==
    /\ Len(content) = Len(images)
    /\ \A i \in 1..Len(content) :
          /\ content[i].type = "text"
          /\ startsWith(content[i].text, ImageSavedTo)
          /\ content[i].data.len = 0

\* C1: with inline output requested, a returned response is made of inline
\* image entries when the decoded bytes of all payloads sum to at most
\* 1,048,576, and otherwise the mode is overridden to file and the response is
\* made of "Image saved to" text entries only.
C1_AggregateThreshold ==
    (pc = "done" /\ args.output = "base64") =>
        IF totalBase64Size(images) <= 1048576
        THEN effectiveOutput = "base64" /\ AllInline(response)
        ELSE effectiveOutput = "file_output" /\ AllSaved(response)

C1_Witness ==
    /\ pc = "done"
    /\ args.output = "base64"
    /\ effectiveOutput = "file_output"
    /\ Len(response) = 2
    /\ totalBase64Size(images) > 1048576

\* C2: the base64 text carried by the image entries of an inline response
\* never exceeds 1,048,576 characters in total.
C2_InlineFitsCeiling ==
    (pc = "done" /\ effectiveOutput = "base64") => EncodedLength(response) <= 1048576

\* The aspect-ratio table of README.md 85-88.
DocumentedSize(token) ==
    CASE token \in {<<"1",":","1">>, <<"s","q","u","a","r","e">>,
                    <<"4",":","3">>, <<"3",":","4">>} -> S1024x1024
      [] token \in {<<"1","6",":","9">>, <<"l","a","n","d","s","c","a","p","e">>,
                    <<"3",":","2">>} -> S1536x1024
      [] token \in {<<"9",":","1","6">>, <<"p","o","r","t","r","a","i","t">>,
                    <<"2",":","3">>} -> S1024x1536
      [] OTHER -> <<>>

\* The token in lower case with its whitespace removed.
Canonical(raw) == RemoveChars(toLowerCase(raw), WhitespaceChars)

\* C3: an invocation whose size is a recognized aspect-ratio token, in any
\* letter case and with any whitespace, is accepted, and its upstream request
\* carries the documented size.
C3_AspectTokensAccepted ==
    (pc # "idle" /\ args.size # Undefined /\ DocumentedSize(Canonical(args.size[1])) # <<>>) =>
        /\ "size" \notin error.fields
        /\ request # <<>> => request[1].size = Some(DocumentedSize(Canonical(args.size[1])))

\* C4 as stated: create-image with background "transparent" and an
\* output_format that is not png or webp fails with InvalidParameter before any
\* upstream call, and a generate call carries "transparent" only with png or webp.
C4_TransparentNeedsPngOrWebp ==
    (op = "create" /\ args.background = "transparent"
        /\ args.output_format \notin {"png", "webp"}) =>
        /\ pc = "failed"
        /\ error.kind = "InvalidParameter"
        /\ calls = 0

\* C4, amended: create-image with background "transparent" and a supplied
\* output_format other than png or webp fails with InvalidParameter before any
\* upstream call; a generate call carries "transparent" only with output_format
\* png, webp or omitted.
C4_TransparentRejectsSuppliedOther ==
    /\ (op = "create" /\ args.background = "transparent"
           /\ args.output_format \notin {"png", "webp", "undefined"}) =>
           /\ pc = "failed"
           /\ error.kind = "InvalidParameter"
           /\ calls = 0
           /\ request = <<>>
    /\ (request # <<>> /\ request[1].call = "generate"
           /\ request[1].background = "transparent") =>
           request[1].output_format \in {"png", "webp", "undefined"}

C4_Witness ==
    /\ pc = "failed"
    /\ op = "create"
    /\ args.background = "transparent"
    /\ args.output_format = "jpeg"
    /\ error.fields = {"background", "output_format"}

\* C5: the size of an upstream request is one of the four canonical values, or
\* omitted when none was supplied; a supplied token whose normalized value is
\* not canonical fails the invocation before the upstream call, with an error
\* that quotes the caller's token and not a normalized form of it.
C5_SizeCanonicalOrRejected ==
    /\ request # <<>> =>
          /\ request[1].size = Undefined \/ request[1].size[1] \in ValidSizes
          /\ args.size = Undefined => request[1].size = Undefined
    /\ (pc # "idle" /\ args.size # Undefined /\ parseSize(args.size[1]) \notin ValidSizes) =>
          /\ pc = "failed"
          /\ calls = 0
          /\ "size" \in error.fields
          /\ args.size[1] \in error.quoted
          /\ Canonical(args.size[1]) # args.size[1] =>
                Canonical(args.size[1]) \notin error.quoted

C5_Witness ==
    /\ pc = "failed"
    /\ op = "edit"
    /\ args.size = Some(<<" ","F","O","O">>)
    /\ "size" \in error.fields
    /\ calls = 0

\* The absolute-path syntax: a leading "/" or a drive-letter prefix.
IsAbsoluteSyntax(p) == p # <<>> /\ (p[1] = "/" \/ DriveLetterPrefix(p))

\* C6: every path a payload is written to is absolute.
C6_WrittenPathsAbsolute ==
    \A i \in 1..Len(written) : IsAbsoluteSyntax(written[i])

\* <dir>/<name>_<i><ext> for the base path <dir>/<name><ext>, the extension
\* being the payload's when the base path has none.
IndexedPath(base, i, payloadExt) ==
    LET parsed == pathParse(base)
        ext == IF parsed.ext # <<>> THEN parsed.ext ELSE <<".">> \o payloadExt
    IN  pathJoin(parsed.dir, parsed.name \o <<"_">> \o Decimal(i) \o ext)

\* C7: N > 1 payloads persisted against <dir>/<name><ext> are written to
\* <dir>/<name>_<i><ext>, i = 1..N in upstream order, and the response lists
\* exactly these N files in the same order.
C7_IndexedPathsInOrder ==
    (pc = "done" /\ effectiveOutput = "file_output" /\ Len(images) > 1) =>
        /\ Len(written) = Len(images)
        /\ Len(response) = Len(images)
        /\ \A i \in 1..Len(images) :
              /\ written[i] = IndexedPath(basePath, i, images[i].ext)
              /\ response[i].text = ImageSavedTo \o written[i]

\* Neither an absolute path nor base64 text or a data:image/ URL.
Unclassifiable(str) ==
    /\ ~IsAbsoluteSyntax(str)
    /\ ~(str # <<>> /\ Range(str) \subseteq Base64Alphabet)
    /\ ~startsWith(str, DataImagePrefix)

\* The fields of the invocation that hold such a string.
Offending ==
    (IF Unclassifiable(args.image) THEN {"image"} ELSE {})
    \cup (IF args.mask # Undefined /\ Unclassifiable(args.mask[1]) THEN {"mask"} ELSE {})

\* C8: edit-image with an image, or a supplied mask, that is neither an
\* absolute path nor base64 text or a data:image/ URL makes no upstream call
\* and, once ended, has failed with InvalidInput naming such a field (or with
\* the InvalidParameter of an earlier validation step).
C8_UnclassifiableInputRejected ==
    (op = "edit" /\ Offending # {}) =>
        /\ calls = 0
        /\ pc \in {"done", "failed"} =>
              /\ pc = "failed"
              /\ error.kind \in {"InvalidInput", "InvalidParameter"}
              /\ error.kind = "InvalidInput" =>
                    error.fields # {} /\ error.fields \subseteq Offending

HasControlChar(str) == Range(str) \cap (C0Chars \cup {"DEL"}) # {}

HasC0Char(str) == Range(str) \cap C0Chars # {}

\* The destination is a file directly inside dir, named by the sanitized name.
DirectlyInside(dest, dir, name) ==
    /\ pathParse(dest).dir = dir
    /\ pathParse(dest).name = name
    /\ pathParse(dest).ext = <<".","p","n","g">>

SanitizedSafe(name) ==
    /\ name # <<>>
    /\ Len(name) <= 200
    /\ Range(name) \cap {"/", "\\"} = {}
    /\ name \notin {<<".">>, <<".",".">>}

\* C9 as stated: the result of sanitizeFilename is non-empty, of at most 200
\* characters, without "/", "\", control characters or a traversal sequence,
\* and the default destination built from it lies directly inside the default
\* directory.
C9_SanitizedNoControl ==
    sanOut.done =>
        /\ SanitizedSafe(sanOut.name)
        /\ ~HasControlChar(sanOut.name)
        /\ sanIn # <<>> => DirectlyInside(sanOut.dest, sanOut.dir, sanOut.name)

\* C9, amended: the same, the control characters being those of U+0000 to
\* U+001F; U+007F is left in place.
C9_SanitizedNoC0 ==
    sanOut.done =>
        /\ SanitizedSafe(sanOut.name)
        /\ ~HasC0Char(sanOut.name)
        /\ sanIn # <<>> => DirectlyInside(sanOut.dest, sanOut.dir, sanOut.name)

C9_Witness ==
    /\ sanOut.done
    /\ sanIn = LongPad \o <<"/", "\n">>
    /\ Len(sanOut.name) = 200
    /\ sanOut.dest # <<>>

\* C10: payloads are written one at a time in payload order; when a write
\* fails the paths written before stay written, the invocation fails with the
\* file-system error, no response is returned and nothing more is written.
C10_PartialWritesRemain ==
    [][ /\ \/ written' = written
           \/ pc = "write" /\ Len(written) < Len(images)
                /\ written' = Append(written, FilePath(op, basePath, images, Len(written)))
        /\ pc' = "failed" => written' = written /\ response' = <<>>
        /\ (pc = "write" /\ pc' = "failed") =>
              error'.kind = "FilesystemFailure" /\ Len(written) < Len(images)
        /\ pc = "failed" => written' = written /\ pc' = "failed" ]_vars

C10_Witness ==
    /\ pc = "failed"
    /\ error.kind = "FilesystemFailure"
    /\ error.stage = "write"
    /\ Len(written) = 2
    /\ Len(images) = 3

\* C12: in create-image and in edit-image alike, every path written against a
\* base path that has an extension carries that extension, for one payload
\* and for several; the payload's extension appears only when the base path
\* has none.
C12_BaseExtensionPreserved ==
    \A i \in 1..Len(written) :
        LET baseExt == pathParse(basePath).ext
            ext == pathParse(written[i]).ext
        IN  /\ baseExt # <<>> => ext = baseExt
            /\ baseExt = <<>> => ext = <<".">> \o images[i].ext

\* The caller asked for file delivery and gave no absolute file_output.
FileModeWithoutAbsolutePath ==
    /\ args.output = "file_output"
    /\ args.file_output = Undefined \/ ~IsAbsoluteSyntax(args.file_output[1])

\* C14: edit-image asked for file delivery with a file_output that is missing
\* or not absolute fails with InvalidParameter before input resolution, the
\* upstream call and any write; so an edit-image invocation in file mode that
\* reached the upstream call has a caller-supplied absolute file_output.
C14_EditFileModeNeedsAbsolute ==
    (op = "edit" /\ FileModeWithoutAbsolutePath) =>
        /\ pc = "failed"
        /\ error.kind = "InvalidParameter"
        /\ calls = 0
        /\ request = <<>>
        /\ written = <<>>

\* The arguments pass every validation step of the operation.
ValidatedArgs(o, a) ==
    /\ a.size = Undefined \/ a.size[1] \in ValidSizes
    /\ ~Truthy(a.file_output) \/ IsAbsoluteSyntax(a.file_output[1])
    /\ o = "create" => ~(a.background = "transparent" /\ a.output_format = "jpeg")
    /\ o = "edit" =>
          /\ ~Unclassifiable(a.image)
          /\ ~Truthy(a.mask) \/ ~Unclassifiable(a.mask[1])
          /\ a.output = "file_output" => a.file_output # Undefined

\* C13: an invocation makes at most one upstream call, makes it only once
\* every validation step (and, for edit-image, input resolution) has
\* succeeded, and writes files only after that call has returned; the step
\* that fails makes no call and no write, and after a failure there is no
\* further call and no further write.
C13_OneCallNoRetry ==
    [][ /\ calls' \in {calls, calls + 1}
        /\ calls' <= 1
        /\ calls' # calls =>
              /\ pc = (IF op' = "edit" THEN "resolve" ELSE "idle")
              /\ pc' = "upstream"
              /\ error' = NoError
              /\ ValidatedArgs(op', args')
              /\ request' # <<>>
              /\ images = <<>> /\ written = <<>>
        /\ written' # written =>
              /\ pc = "write"
              /\ calls = 1 /\ calls' = 1
              /\ images # <<>> /\ images' = images
        /\ pc' = "failed" => calls' = calls /\ written' = written
        /\ pc = "failed" => pc' = "failed" ]_vars

C13_Witness ==
    /\ pc = "failed"
    /\ op = "edit"
    /\ error.stage = "write"
    /\ calls = 1
    /\ Len(written) = 1
    /\ Len(images) = 2

\* Both invocations deliver by file into the default directory.
BothDefaultFile ==
    \A k \in Invocations :
        /\ inv[k].basePath # <<>>
        /\ ~Truthy(inv[k].args.file_output)

\* C11: two concurrent invocations that both deliver by file into the
\* default directory compute distinct destination paths, and no path is
\* written by both.
C11_DefaultPathsDistinct ==
    BothDefaultFile =>
        /\ inv[1].basePath # inv[2].basePath
        /\ Range(inv[1].written) \cap Range(inv[2].written) = {}

=============================================================================
